---- MODULE Spec2Model ----
(***************************************************************************)
(* A model of build.py: the process wrapper runcmd, its convenience        *)
(* callers shell_exec / runcmd_check_error, the cwd context manager and    *)
(* the release pipeline build().                                           *)
(*                                                                         *)
(* Representation.  A Python str is a sequence of characters; the          *)
(* characters of a command line are tokens (a word such as "exit" stands   *)
(* for its letters, SP for a blank, DQ for a double quote).                *)
(* Captured output is a sequence of byte values (integers); decoded text   *)
(* is a sequence of one-character strings.  Python's None is the string    *)
(* "None" for option values and [some |-> FALSE] for the captured stream.  *)
(***************************************************************************)
EXTENDS Integers, Sequences, FiniteSets, TLC

VARIABLES
    pc,         \* position of the runcmd call
    call,       \* the arguments runcmd was called with
    osname,     \* os.name of the platform: "posix" or "nt"
    kwargs,     \* the keyword arguments handed on to Popen
    argv,       \* the local `args` once resolved
    proc,       \* the child process
    stdout,     \* the local `stdout`
    exc,        \* the exception in flight / caught (`exc`)
    result,     \* how the call ended
    steps,      \* the normalisation steps executed so far, in order
    bpc,        \* position of build()
    curdir,     \* the process's working directory
    ran,        \* the commands build() has run, in order
    okcmds,     \* the commands that ended without raising
    failedAt,   \* 0, or the position in `ran` of the command that raised
    tags,       \* output of `git tag --list`
    new_tag,    \* build number chosen by generate_new_tag (0: bare version)
    sink        \* names appended to $GITHUB_ENV

rvars == <<pc, call, osname, kwargs, argv, proc, stdout, exc, result, steps>>

bvars == <<bpc, curdir, ran, okcmds, failedAt, tags, new_tag, sink>>

vars == <<pc, call, osname, kwargs, argv, proc, stdout, exc, result, steps,
          bpc, curdir, ran, okcmds, failedAt, tags, new_tag, sink>>

---------------------------------------------------------------------------
(* Bounds *)

\* longest captured output explored by DecodeSpec
MaxLen == 4

\* largest exit status the environment's program may report
MaxCode == 3

\* number of tags of the form version-N that may already exist
MaxBuildNum == 2

---------------------------------------------------------------------------
(* Bytes and text *)

ByteLF == 10

ByteCR == 13

ByteA == 97

ByteFF == 255

Bytes == {ByteA, ByteCR, ByteLF, ByteFF}

BytesUpTo(n) == UNION {[1..k -> Bytes] : k \in 0..n}

\* bytes.decode on one byte that is valid ASCII
CharOf(b) == CASE b = ByteLF -> "\\n" [] b = ByteCR -> "\\r" [] OTHER -> "a"

\* python's b[-2:]
Last2(b) == IF Len(b) >= 2 THEN SubSeq(b, Len(b) - 1, Len(b)) ELSE b

\* python's b[-1:]
Last1(b) == IF Len(b) >= 1 THEN SubSeq(b, Len(b), Len(b)) ELSE b

\* variant: the LF test made before the CRLF test
StripLFFirst(b) ==
    IF Last1(b) = <<ByteLF>> THEN SubSeq(b, 1, Len(b) - 1)
    ELSE IF Last2(b) = <<ByteCR, ByteLF>> THEN SubSeq(b, 1, Len(b) - 2)
    ELSE b

\* lines 115-118
StripNewline(b) ==
    IF Last2(b) = <<ByteCR, ByteLF>> THEN SubSeq(b, 1, Len(b) - 2)
    ELSE IF Last1(b) = <<ByteLF>> THEN SubSeq(b, 1, Len(b) - 1)
    ELSE b

\* 0xFF is no lead byte of UTF-8; the other bytes of the alphabet are ASCII
Utf8Valid(b) == \A i \in 1..Len(b) : b[i] # ByteFF

\* 0xFF is outside GBK's lead range 0x81..0xFE
GbkValid(b) == \A i \in 1..Len(b) : b[i] # ByteFF

ToText(b) == [i \in 1..Len(b) |-> CharOf(b[i])]

DecodeIgnore(b) == ToText(SelectSeq(b, LAMBDA x : x # ByteFF))

Decode(b) ==
    IF Utf8Valid(b) THEN ToText(b)
    ELSE IF GbkValid(b) THEN ToText(b)
    ELSE DecodeIgnore(b)

---------------------------------------------------------------------------
(* Command lines *)

SP == " "

DQ == "\""

RECURSIVE Scan(_, _, _, _)
Scan(s, cur, inq, started) ==
    IF s = <<>> THEN (IF started THEN <<cur>> ELSE <<>>)
    ELSE IF Head(s) = DQ THEN Scan(Tail(s), cur, ~inq, TRUE)
    ELSE IF Head(s) = SP /\ ~inq
         THEN (IF started THEN <<cur>> ELSE <<>>) \o Scan(Tail(s), <<>>, FALSE, FALSE)
    ELSE Scan(Tail(s), Append(cur, Head(s)), inq, TRUE)

\* shlex.split on lines without escapes or single quotes
ShlexSplit(s) == Scan(s, <<>>, FALSE, FALSE)

NeedsQuote(w) == w = <<>> \/ \E i \in 1..Len(w) : w[i] = SP

QuoteArg(w) == IF NeedsQuote(w) THEN <<DQ>> \o w \o <<DQ>> ELSE w

RECURSIVE List2Cmdline(_)
List2Cmdline(ws) ==
    IF ws = <<>> THEN <<>>
    ELSE IF Len(ws) = 1 THEN QuoteArg(ws[1])
    ELSE QuoteArg(ws[1]) \o <<SP>> \o List2Cmdline(Tail(ws))

---------------------------------------------------------------------------
(* The platform: which programs exist and what a shell does with a line *)

Executables == {<<"true">>, <<"false">>, <<"prog">>}

ExitNumbers == {<<"0">>, <<"2">>, <<"3">>}

ExitValue(w) == CASE w = <<"0">> -> 0 [] w = <<"2">> -> 2 [] OTHER -> 3

\* what `prog` may print
ProgOutputs == {<<>>, <<ByteA, ByteLF>>, <<ByteA, ByteCR, ByteLF>>, <<ByteFF, ByteLF, ByteLF>>}

\* the shell's "not found" diagnostic, written to stderr
NotFoundMsg == <<ByteA, ByteLF>>

\* an executable run with an argument vector; st and o are what `prog` does
ProgramRuns(words, st, o) ==
    IF words[1] = <<"prog">> THEN [status |-> st, out |-> o]
    ELSE IF words[1] = <<"false">> THEN [status |-> 1, out |-> <<>>]
    ELSE [status |-> 0, out |-> <<>>]

\* sh -c script (cmd /c line): the status of the whole command line
ShellRuns(script, st, o) ==
    LET w == ShlexSplit(script)
    IN  IF w = <<>> THEN [status |-> 0, out |-> <<>>]
        ELSE IF w[1] = <<"exit">>
             THEN [status |-> IF Len(w) >= 2 /\ w[2] \in ExitNumbers THEN ExitValue(w[2]) ELSE 0,
                   out |-> <<>>]
        ELSE IF w[1] \in Executables THEN ProgramRuns(w, st, o)
        ELSE [status |-> 127, out |-> NotFoundMsg]

---------------------------------------------------------------------------
(* runcmd: values *)

SentinelCode == 2

NoStream == [some |-> FALSE, data |-> <<>>]

Stream(b) == [some |-> TRUE, data |-> b]

NoProc == [state |-> "none", rcset |-> FALSE, rc |-> 0, status |-> 0, out |-> <<>>]

NoResult == [kind |-> "none", output |-> <<>>, retcode |-> 0, exc |-> "none", payload |-> NoStream]

Raise(e) == [kind |-> "raise", output |-> <<>>, retcode |-> 0, exc |-> e, payload |-> NoStream]

RaiseCalledProcessError(rc, so) ==
    [kind |-> "raise", output |-> <<>>, retcode |-> rc, exc |-> "CalledProcessError", payload |-> so]

Return(o, rc) == [kind |-> "return", output |-> o, retcode |-> rc, exc |-> "none", payload |-> NoStream]

\* str(exc): the message of the exception, one unit of text
StrExc(e) == <<e>>

StrLine(l) == [kind |-> "str", line |-> l, items |-> <<>>]

SeqArgs(its) == [kind |-> "seq", line |-> <<>>, items |-> its]

OtherArgs == [kind |-> "other", line |-> <<>>, items |-> <<>>]

Item(t, w) == [type |-> t, text |-> w]

ArgSpecs ==
    { StrLine(<<"exit", SP, "3">>),
      StrLine(<<"exit", SP, "2">>),
      StrLine(<<"true">>),
      StrLine(<<"prog", SP, DQ, "a", SP, "b", DQ>>),
      StrLine(<<"nosuch">>),
      SeqArgs(<<Item("str", <<"prog">>), Item("Path", <<"a", SP, "b">>)>>),
      SeqArgs(<<Item("str", <<"false">>)>>),
      SeqArgs(<<Item("str", <<"nosuch">>)>>),
      SeqArgs(<<Item("str", <<"prog">>), Item("int", <<"3">>)>>),
      OtherArgs }

Calls ==
    [ args : ArgSpecs, shell : BOOLEAN, enable_stdout : BOOLEAN, show_window : BOOLEAN,
      input : {"None", "bytes", "str"}, timeout : {"None", "set"}, check : BOOLEAN,
      kw_stdin : {"None", "file"}, kw_stdout : {"None", "file"},
      kw_startupinfo : {"absent", "invalid"} ]

OsNames == {"posix", "nt"}

InitKwargs(c) ==
    [stdin |-> c.kw_stdin, stdout |-> c.kw_stdout, stderr |-> "None",
     startupinfo |-> c.kw_startupinfo, shell |-> "unset"]

Unresolved == [form |-> "unset", vec |-> <<>>, line |-> <<>>]

---------------------------------------------------------------------------
(* runcmd: the decisions of the code, one operator each *)

\* variant: the stdin test of line 52 left out
NoInputConflict(c, kw) == FALSE

InputConflict(c, kw) == c.input # "None" /\ kw.stdin # "None"

StreamConflict(c, kw) == ~c.enable_stdout /\ (kw.stdout # "None" \/ kw.stderr # "None")

\* variant: the isinstance test of line 70 left out
AnyItemOk(it) == TRUE

ItemOk(it) == it.type \in {"str", "Path"}

ArgsError(a) ==
    IF a.kind = "str" THEN "none"
    ELSE IF a.kind = "seq"
         THEN IF \E i \in 1..Len(a.items) : ~ItemOk(a.items[i]) THEN "TypeError_item" ELSE "none"
    ELSE "TypeError_args"

ResolveArgs(a, os) ==
    IF a.kind = "str"
    THEN IF os = "posix"
         THEN [form |-> "vec", vec |-> ShlexSplit(a.line), line |-> <<>>]
         ELSE [form |-> "line", vec |-> <<>>, line |-> a.line]
    ELSE LET texts == [i \in 1..Len(a.items) |-> a.items[i].text]
         IN  IF os = "nt"
             THEN [form |-> "line", vec |-> <<>>, line |-> List2Cmdline(texts)]
             ELSE [form |-> "vec", vec |-> texts, line |-> <<>>]

StartupinfoError(c, kw, os) ==
    IF os = "nt" /\ ~c.show_window /\ kw.startupinfo = "invalid" THEN "TypeError_startupinfo"
    ELSE "none"

\* why Popen(args, **kwargs) raises instead of starting a process
LaunchError(os, kw, av) ==
    IF kw.startupinfo = "invalid" THEN "PopenArgumentError"
    ELSE IF os = "posix"
         THEN IF av.vec = <<>> THEN "IndexError"
              ELSE IF kw.shell THEN "none"
              ELSE IF av.vec[1] \in Executables THEN "none" ELSE "FileNotFoundError"
    ELSE IF kw.shell THEN "none"
         ELSE LET w == ShlexSplit(av.line)
              IN  IF w # <<>> /\ w[1] \in Executables THEN "none" ELSE "FileNotFoundError"

\* what the started process does when left to run
Behaviour(os, kw, av, st, o) ==
    IF os = "posix"
    THEN IF kw.shell THEN ShellRuns(av.vec[1], st, o) ELSE ProgramRuns(av.vec, st, o)
    ELSE IF kw.shell THEN ShellRuns(av.line, st, o) ELSE ProgramRuns(ShlexSplit(av.line), st, o)

KillStatus(os) == IF os = "posix" THEN 0 - 9 ELSE 1

\* Popen.kill(): no effect on a process whose status was already collected
Kill(p, os) ==
    IF p.state = "running" THEN [p EXCEPT !.state = "killed", !.status = KillStatus(os)] ELSE p

\* Popen.wait() on a process that has ended or been killed
Wait(p) == [p EXCEPT !.state = "reaped", !.rcset = TRUE, !.rc = p.status]

\* variant: Popen used without the with block
NoExitWait(p) == p

\* Popen.__exit__: close the pipes and wait for the child
ExitWait(p) == Wait(p)

\* variant: the message returned whether or not the output is captured
HandlerNeverEmpty(check, enable_stdout, e) ==
    IF check THEN Raise(e) ELSE Return(StrExc(e), SentinelCode)

HandlerResult(check, enable_stdout, e) ==
    IF check THEN Raise(e)
    ELSE Return(IF enable_stdout THEN <<>> ELSE StrExc(e), SentinelCode)

\* variant: check ignored
StatusRaisesAlways(check, retcode) == retcode # 0

StatusRaises(check, retcode) == check /\ retcode # 0

DecodeOutput(so) == IF so.some /\ so.data # <<>> THEN Decode(StripNewline(so.data)) ELSE <<>>

---------------------------------------------------------------------------
(* runcmd: the steps of one call *)

\* lines 51-54: input / stdin
InputStep ==
    /\ pc = "input"
    /\ steps' = Append(steps, "input")
    /\ IF InputConflict(call, kwargs)
       THEN /\ result' = Raise("ValueError_stdin")
            /\ exc' = "ValueError_stdin"
            /\ pc' = "done"
            /\ UNCHANGED kwargs
       ELSE /\ kwargs' = IF call.input # "None" THEN [kwargs EXCEPT !.stdin = "PIPE"] ELSE kwargs
            /\ pc' = "streams"
            /\ UNCHANGED <<result, exc>>
    /\ UNCHANGED <<call, osname, argv, proc, stdout>>
    /\ UNCHANGED bvars

\* lines 56-63: stream wiring
StreamStep ==
    /\ pc = "streams"
    /\ steps' = Append(steps, "streams")
    /\ IF StreamConflict(call, kwargs)
       THEN /\ result' = Raise("ValueError_streams")
            /\ exc' = "ValueError_streams"
            /\ pc' = "done"
            /\ UNCHANGED kwargs
       ELSE /\ kwargs' = IF ~call.enable_stdout
                         THEN [kwargs EXCEPT !.stdout = "PIPE", !.stderr = "STDOUT"]
                         ELSE kwargs
            /\ pc' = "args"
            /\ UNCHANGED <<result, exc>>
    /\ UNCHANGED <<call, osname, argv, proc, stdout>>
    /\ UNCHANGED bvars

\* lines 65-78: argument resolution
ArgsStep ==
    /\ pc = "args"
    /\ steps' = Append(steps, "args")
    /\ IF ArgsError(call.args) # "none"
       THEN /\ result' = Raise(ArgsError(call.args))
            /\ exc' = ArgsError(call.args)
            /\ pc' = "done"
            /\ UNCHANGED argv
       ELSE /\ argv' = ResolveArgs(call.args, osname)
            /\ pc' = "console"
            /\ UNCHANGED <<result, exc>>
    /\ UNCHANGED <<call, osname, kwargs, proc, stdout>>
    /\ UNCHANGED bvars

\* lines 80-88: console-window hint, then kwargs["shell"] = shell
ConsoleStep ==
    /\ pc = "console"
    /\ steps' = Append(steps, "console")
    /\ IF StartupinfoError(call, kwargs, osname) # "none"
       THEN /\ result' = Raise(StartupinfoError(call, kwargs, osname))
            /\ exc' = StartupinfoError(call, kwargs, osname)
            /\ pc' = "done"
            /\ UNCHANGED kwargs
       ELSE /\ kwargs' = [kwargs EXCEPT
                            !.startupinfo = IF osname = "nt" /\ ~call.show_window
                                            THEN "hidden" ELSE @,
                            !.shell = call.shell]
            /\ pc' = "launch"
            /\ UNCHANGED <<result, exc>>
    /\ UNCHANGED <<call, osname, argv, proc, stdout>>
    /\ UNCHANGED bvars

\* line 90: subprocess.Popen(args, **kwargs)
Launch ==
    /\ pc = "launch"
    /\ steps' = Append(steps, "launch")
    /\ IF LaunchError(osname, kwargs, argv) # "none"
       THEN /\ exc' = LaunchError(osname, kwargs, argv)
            /\ pc' = "handler"
            /\ UNCHANGED proc
       ELSE /\ \E st \in 0..MaxCode, o \in ProgOutputs :
                 LET b == Behaviour(osname, kwargs, argv, st, o)
                 IN  proc' = [state |-> "running", rcset |-> FALSE, rc |-> 0,
                              status |-> b.status, out |-> b.out]
            /\ pc' = "communicate"
            /\ UNCHANGED exc
    /\ UNCHANGED <<call, osname, kwargs, argv, stdout, result>>
    /\ UNCHANGED bvars

\* line 92: communicate returns, the process having ended within the timeout
CommunicateReturns ==
    /\ pc = "communicate"
    /\ call.input # "str"
    /\ proc' = Wait(proc)
    /\ stdout' = IF kwargs.stdout = "PIPE" THEN Stream(proc.out) ELSE NoStream
    /\ pc' = "exit"
    /\ UNCHANGED <<call, osname, kwargs, argv, exc, result, steps>>
    /\ UNCHANGED bvars

\* line 92 raising TimeoutExpired, lines 93-99 handling it
CommunicateTimeout ==
    /\ pc = "communicate"
    /\ call.input # "str"
    /\ call.timeout # "None"
    /\ proc' = Wait(Kill(proc, osname))
    /\ exc' = "TimeoutExpired"
    /\ pc' = "exit"
    /\ UNCHANGED <<call, osname, kwargs, argv, stdout, result, steps>>
    /\ UNCHANGED bvars

\* line 92 raising anything else (a str given as input to a binary pipe is a
\* TypeError), lines 100-102 handling it
CommunicateFails ==
    /\ pc = "communicate"
    /\ call.input = "str"
    /\ proc' = Kill(proc, osname)
    /\ exc' = "TypeError_input"
    /\ pc' = "exit"
    /\ UNCHANGED <<call, osname, kwargs, argv, stdout, result, steps>>
    /\ UNCHANGED bvars

\* line 90: leaving the with block
WithExit ==
    /\ pc = "exit"
    /\ proc' = ExitWait(proc)
    /\ pc' = IF exc = "none" THEN "status" ELSE "handler"
    /\ UNCHANGED <<call, osname, kwargs, argv, stdout, exc, result, steps>>
    /\ UNCHANGED bvars

\* lines 103-108: except Exception as exc
Handler ==
    /\ pc = "handler"
    /\ result' = HandlerResult(call.check, call.enable_stdout, exc)
    /\ pc' = "done"
    /\ UNCHANGED <<call, osname, kwargs, argv, proc, stdout, exc, steps>>
    /\ UNCHANGED bvars

\* lines 109-113: status resolution
StatusStep ==
    /\ pc = "status"
    /\ IF StatusRaises(call.check, proc.rc)
       THEN /\ result' = RaiseCalledProcessError(proc.rc, stdout)
            /\ exc' = "CalledProcessError"
            /\ pc' = "done"
       ELSE /\ pc' = "decode"
            /\ UNCHANGED <<result, exc>>
    /\ UNCHANGED <<call, osname, kwargs, argv, proc, stdout, steps>>
    /\ UNCHANGED bvars

\* lines 114-128: strip one line terminator, decode, return
DecodeStep ==
    /\ pc = "decode"
    /\ stdout' = IF stdout.some /\ stdout.data # <<>>
                 THEN Stream(StripNewline(stdout.data)) ELSE stdout
    /\ result' = Return(DecodeOutput(stdout), proc.rc)
    /\ pc' = "done"
    /\ UNCHANGED <<call, osname, kwargs, argv, proc, exc, steps>>
    /\ UNCHANGED bvars

BuildIdle ==
    /\ bpc = "idle"
    /\ curdir = "orig"
    /\ ran = <<>>
    /\ okcmds = {}
    /\ failedAt = 0
    /\ tags = {}
    /\ new_tag = 0
    /\ sink = <<>>

Init ==
    /\ pc = "input"
    /\ call \in Calls
    /\ osname \in OsNames
    /\ kwargs = InitKwargs(call)
    /\ argv = Unresolved
    /\ proc = NoProc
    /\ stdout = NoStream
    /\ exc = "none"
    /\ result = NoResult
    /\ steps = <<>>
    /\ BuildIdle

Next ==
    \/ InputStep
    \/ StreamStep
    \/ ArgsStep
    \/ ConsoleStep
    \/ Launch
    \/ CommunicateReturns
    \/ CommunicateTimeout
    \/ CommunicateFails
    \/ WithExit
    \/ Handler
    \/ StatusStep
    \/ DecodeStep

Spec == Init /\ [][Next]_vars

---------------------------------------------------------------------------
(* The decode step on every captured output up to MaxLen bytes *)

DecodeCall ==
    [ args |-> StrLine(<<"prog", SP, DQ, "a", SP, "b", DQ>>), shell |-> FALSE,
      enable_stdout |-> FALSE, show_window |-> FALSE, input |-> "None", timeout |-> "None",
      check |-> FALSE, kw_stdin |-> "None", kw_stdout |-> "None", kw_startupinfo |-> "absent" ]

DecodeInit ==
    /\ pc = "decode"
    /\ call = DecodeCall
    /\ osname = "posix"
    /\ kwargs = [stdin |-> "None", stdout |-> "PIPE", stderr |-> "STDOUT",
                 startupinfo |-> "absent", shell |-> FALSE]
    /\ argv = ResolveArgs(call.args, osname)
    /\ \E b \in BytesUpTo(MaxLen), st \in 0..MaxCode :
         /\ proc = [state |-> "reaped", rcset |-> TRUE, rc |-> st, status |-> st, out |-> b]
         /\ stdout = Stream(b)
    /\ exc = "none"
    /\ result = NoResult
    /\ steps = <<"input", "streams", "args", "console", "launch">>
    /\ BuildIdle

DecodeNext == DecodeStep

DecodeSpec == DecodeInit /\ [][DecodeNext]_vars

---------------------------------------------------------------------------
(* build(): the release pipeline *)

PreCmds == <<"go install", "xcaddy build", "chmod", "caddy version">>

TagsCmd == <<"git tag --list">>

GitCmds ==
    <<"git config email", "git config name", "git add", "git commit",
      "git pull", "git push ref", "git tag", "git push tag">>

Pipeline == PreCmds \o TagsCmd \o GitCmds

\* what the environment does with a command: it cannot be started, or it
\* runs and reports a status
CmdOutcomes == {[kind |-> "nolaunch", code |-> 0]} \cup [kind : {"exit"}, code : 0..MaxCode]

Succeeded(o) == o.kind = "exit" /\ o.code = 0

\* runcmd(cmd, enable_stdout=es, check=chk) on a well-formed command without
\* input or timeout
RunPlain(es, chk, o) ==
    IF o.kind = "nolaunch" THEN HandlerResult(chk, es, "FileNotFoundError")
    ELSE IF StatusRaises(chk, o.code) THEN RaiseCalledProcessError(o.code, NoStream)
    ELSE Return(<<>>, o.code)

\* variant: shell_exec calling runcmd without check=True
ShellExecUnchecked(o) == RunPlain(TRUE, FALSE, o)

\* shell_exec(cmd)
ShellExec(o) == RunPlain(TRUE, TRUE, o)

\* runcmd_check_error(cmd)
RuncmdCheckError(o) == RunPlain(FALSE, TRUE, o)

RunCommand(cmd, o) ==
    IF cmd \in {"caddy version", "git tag --list"} THEN RuncmdCheckError(o) ELSE ShellExec(o)

RECURSIVE NextFree(_, _)
NextFree(ts, n) == IF n \in ts THEN NextFree(ts, n + 1) ELSE n

\* generate_new_tag: 0 is the bare version, n > 0 is version-n
GenerateNewTag(ts) == NextFree(ts, 0)

\* lines 183-188: the commands before the cwd block
PreCommand ==
    /\ bpc = "pre"
    /\ \E o \in CmdOutcomes :
         LET i == Len(ran) + 1
             cmd == Pipeline[i]
             r == RunCommand(cmd, o)
         IN  /\ ran' = Append(ran, cmd)
             /\ okcmds' = IF Succeeded(o) THEN okcmds \cup {cmd} ELSE okcmds
             /\ IF r.kind = "raise"
                THEN /\ failedAt' = i
                     /\ bpc' = "raised"
                ELSE /\ failedAt' = failedAt
                     /\ bpc' = IF i = Len(PreCmds) THEN "chdir" ELSE "pre"
    /\ UNCHANGED <<curdir, tags, new_tag, sink>>
    /\ UNCHANGED rvars

\* lines 10-11: entering the cwd block
EnterCwd ==
    /\ bpc = "chdir"
    /\ \/ /\ curdir' = "repo"
          /\ bpc' = "tags"
       \/ /\ curdir' = curdir
          /\ bpc' = "raised"
    /\ UNCHANGED <<ran, okcmds, failedAt, tags, new_tag, sink>>
    /\ UNCHANGED rvars

\* line 192: generate_new_tag(short_version)
NewTag ==
    /\ bpc = "tags"
    /\ \E o \in CmdOutcomes, ts \in SUBSET (0..MaxBuildNum) :
         LET i == Len(ran) + 1
             cmd == Pipeline[i]
             r == RunCommand(cmd, o)
         IN  /\ ran' = Append(ran, cmd)
             /\ okcmds' = IF Succeeded(o) THEN okcmds \cup {cmd} ELSE okcmds
             /\ IF r.kind = "raise"
                THEN /\ failedAt' = i
                     /\ bpc' = "unwind"
                     /\ UNCHANGED <<tags, new_tag>>
                ELSE /\ failedAt' = failedAt
                     /\ tags' = ts
                     /\ new_tag' = GenerateNewTag(ts)
                     /\ bpc' = "readme"
    /\ UNCHANGED <<curdir, sink>>
    /\ UNCHANGED rvars

\* lines 196-198: README.md is written, or the write raises
WriteReadme ==
    /\ bpc = "readme"
    /\ bpc' \in {"git", "unwind"}
    /\ UNCHANGED <<curdir, ran, okcmds, failedAt, tags, new_tag, sink>>
    /\ UNCHANGED rvars

\* lines 211-212: for cmd in cmd_list: shell_exec(cmd)
GitCommand ==
    /\ bpc = "git"
    /\ \E o \in CmdOutcomes :
         LET i == Len(ran) + 1
             cmd == Pipeline[i]
             r == RunCommand(cmd, o)
         IN  /\ ran' = Append(ran, cmd)
             /\ okcmds' = IF Succeeded(o) THEN okcmds \cup {cmd} ELSE okcmds
             /\ IF r.kind = "raise"
                THEN /\ failedAt' = i
                     /\ bpc' = "unwind"
                ELSE /\ failedAt' = failedAt
                     /\ bpc' = IF i = Len(Pipeline) THEN "export" ELSE "git"
    /\ UNCHANGED <<curdir, tags, new_tag, sink>>
    /\ UNCHANGED rvars

\* lines 215-216: set_runner_env_var, twice
Export ==
    /\ bpc = "export"
    /\ sink' = sink \o <<"NEW_TAG", "FULL_VERSION">>
    /\ bpc' = "leave"
    /\ UNCHANGED <<curdir, ran, okcmds, failedAt, tags, new_tag>>
    /\ UNCHANGED rvars

\* lines 14-15: the finally clause of cwd runs os.chdir(wd), on the normal
\* and on the raising path
CwdFinally ==
    /\ bpc \in {"leave", "unwind"}
    /\ curdir' = "orig"
    /\ bpc' = IF bpc = "leave" THEN "done" ELSE "raised"
    /\ UNCHANGED <<ran, okcmds, failedAt, tags, new_tag, sink>>
    /\ UNCHANGED rvars

BuildInit ==
    /\ pc = "idle"
    /\ call = DecodeCall
    /\ osname = "posix"
    /\ kwargs = InitKwargs(call)
    /\ argv = Unresolved
    /\ proc = NoProc
    /\ stdout = NoStream
    /\ exc = "none"
    /\ result = NoResult
    /\ steps = <<>>
    /\ bpc = "pre"
    /\ curdir = "orig"
    /\ ran = <<>>
    /\ okcmds = {}
    /\ failedAt = 0
    /\ tags = {}
    /\ new_tag = 0
    /\ sink = <<>>

BuildNext ==
    \/ PreCommand
    \/ EnterCwd
    \/ NewTag
    \/ WriteReadme
    \/ GitCommand
    \/ Export
    \/ CwdFinally

BuildSpec == BuildInit /\ [][BuildNext]_vars

---------------------------------------------------------------------------
(* Properties of runcmd *)

Launched == proc.state # "none"

\* the call sets nothing but args, shell and check
PlainCall ==
    /\ call.input = "None" /\ call.timeout = "None" /\ ~call.enable_stdout
    /\ call.kw_stdin = "None" /\ call.kw_stdout = "None" /\ call.kw_startupinfo = "absent"

BadItem == call.args.kind = "seq" /\ \E i \in 1..Len(call.args.items) :
                                        call.args.items[i].type \notin {"str", "Path"}

BadInput == call.input # "None" /\ call.kw_stdin # "None"

BadStreams == ~call.enable_stdout /\ call.kw_stdout # "None"

ConfigurationErrors == {"ValueError_stdin", "ValueError_streams", "TypeError_item", "TypeError_args"}

\* C1: a call whose wait exceeded the timeout ends by raising the timeout
\* failure, whatever the value of check.
C1_TimeoutAlwaysRaised ==
    (pc = "done" /\ exc = "TimeoutExpired")
        => (result.kind = "raise" /\ result.exc = "TimeoutExpired")

\* C2: once runcmd has left the with block (it is about to return or raise,
\* or has done so), a process that was launched has been terminated and its
\* status collected.
C2_ProcessReaped ==
    (pc \in {"handler", "status", "decode", "done"} /\ Launched)
        => (proc.state = "reaped" /\ proc.rcset)

C2_Witness ==
    /\ pc = "done" /\ exc = "TypeError_input"
    /\ result.kind = "raise" /\ proc.state = "reaped"

\* C3: a command string run with shell=True and check=False returns the
\* status and the output of the whole command line; "exit 3" returns ("", 3).
C3_ShellLineWhole ==
    (/\ pc = "done" /\ PlainCall /\ call.shell /\ ~call.check
     /\ call.args.kind = "str" /\ call.args.line[1] # "prog")
        => LET b == ShellRuns(call.args.line, 0, <<>>)
           IN  /\ result.kind = "return"
               /\ result.retcode = b.status
               /\ result.output = DecodeOutput(Stream(b.out))
               /\ (call.args.line = <<"exit", SP, "3">> => result = Return(<<>>, 3))

LaunchFailed == pc = "done" /\ "launch" \in {steps[i] : i \in 1..Len(steps)} /\ ~Launched

\* C4 as claimed: a launch failure is re-raised when check is set and is
\* otherwise returned as (str(error), 2), whatever the other options.
C4_LaunchFailureMessage ==
    LaunchFailed =>
        IF call.check THEN result.kind = "raise" /\ result.exc = exc
        ELSE result = Return(StrExc(exc), 2)

\* C4 as amended: a launch failure is re-raised unchanged when check is set;
\* with check unset runcmd returns (str(error), 2) when the output is captured
\* (enable_stdout=False) and ("", 2) when it is not (enable_stdout=True).
C4_LaunchFailureAmended ==
    LaunchFailed =>
        /\ exc \in {"FileNotFoundError", "PopenArgumentError", "IndexError"}
        /\ IF call.check THEN result.kind = "raise" /\ result.exc = exc
           ELSE IF call.enable_stdout THEN result = Return(<<>>, 2)
           ELSE result = Return(StrExc(exc), 2)

C4_Witness ==
    /\ LaunchFailed /\ ~call.check /\ call.enable_stdout
    /\ exc = "FileNotFoundError" /\ result = Return(<<>>, 2)

\* C5: a returned exit code is the status the OS reported for the process
\* whenever a process was started, and the sentinel 2 only when none was.
C5_ExitCodeIsStatus ==
    (pc = "done" /\ result.kind = "return")
        => IF Launched THEN proc.rcset /\ result.retcode = proc.rc
           ELSE result.retcode = 2

\* C6: a call with a configuration error (a sequence with a token that is
\* neither str nor Path, a spec that is neither str nor sequence, input given
\* with stdin) never launches a process and ends by raising a configuration
\* error, whatever the value of check.
C6_ConfigurationErrorRaised ==
    (BadItem \/ call.args.kind = "other" \/ BadInput)
        => /\ ~Launched
           /\ pc \notin {"launch", "communicate", "exit", "handler", "status", "decode"}
           /\ pc = "done" => (result.kind = "raise" /\ result.exc \in ConfigurationErrors)

C6_Witness ==
    /\ pc = "done" /\ BadItem /\ ~BadInput /\ ~call.check
    /\ result = Raise("TypeError_item") /\ ~Launched

RanToCompletion == pc = "done" /\ Launched /\ exc \notin {"TimeoutExpired", "TypeError_input"}

\* C7: when the process ran to completion, check=True with a non-zero status
\* raises an error carrying that status and the captured output; otherwise
\* runcmd returns the pair with the process's status, non-zero included.
C7_StatusResolution ==
    RanToCompletion =>
        IF call.check /\ proc.status # 0
        THEN result = RaiseCalledProcessError(
                          proc.status,
                          IF call.enable_stdout THEN NoStream ELSE Stream(proc.out))
        ELSE result.kind = "return" /\ result.retcode = proc.status

C7_Witness ==
    /\ RanToCompletion /\ call.check /\ proc.status = 3
    /\ result.exc = "CalledProcessError" /\ result.retcode = 3
    /\ result.payload = Stream(<<ByteA, ByteCR, ByteLF>>)

EndsCRLF(s) == Len(s) >= 2 /\ s[Len(s) - 1] = ByteCR /\ s[Len(s)] = ByteLF

EndsLF(s) == Len(s) >= 1 /\ s[Len(s)] = ByteLF

\* C8: of the captured bytes exactly one trailing line terminator is removed:
\* a trailing CRLF as a unit, otherwise one trailing LF, never more, and
\* bytes without a trailing LF are left as they are; the text returned is
\* the decoding of what is left.
C8_StripOneTerminator ==
    (pc = "done" /\ result.kind = "return" /\ stdout.some)
        => LET s == proc.out
               t == stdout.data
               d == Len(s) - Len(t)
           IN  /\ d \in {0, 1, 2}
               /\ t = SubSeq(s, 1, Len(t))
               /\ (d = 2) <=> EndsCRLF(s)
               /\ (d = 1) <=> (EndsLF(s) /\ ~EndsCRLF(s))
               /\ Utf8Valid(s) => Len(result.output) = Len(t)

C8_Witness ==
    /\ pc = "done" /\ result.kind = "return"
    /\ proc.out = <<ByteA, ByteLF, ByteCR, ByteLF>>
    /\ stdout.data = <<ByteA, ByteLF>>
    /\ result.output = <<"a", "\\n">>

\* C9 as claimed: argument resolution is the first step, so a call with an
\* invalid token and with input given together with stdin reports the
\* TypeError of argument resolution.
C9_ArgumentsFirst ==
    (pc = "done" /\ BadItem /\ BadInput) => result.exc = "TypeError_item"

IsPrefix(a, b) == Len(a) <= Len(b) /\ a = SubSeq(b, 1, Len(a))

\* C9 as amended: the steps run in the order input/stdin handling, stream
\* wiring, argument resolution, console-visibility hint, launch; a call that
\* violates more than one step reports the error of the earliest violated
\* step in that order, so an invalid token together with input and stdin
\* reports the ValueError of the input/stdin conflict.
C9_OrderAmended ==
    /\ IsPrefix(steps, <<"input", "streams", "args", "console", "launch">>)
    /\ pc = "done" =>
         /\ BadInput => result = Raise("ValueError_stdin")
         /\ (~BadInput /\ BadStreams) => result = Raise("ValueError_streams")
         /\ (~BadInput /\ ~BadStreams /\ BadItem) => result = Raise("TypeError_item")
         /\ (~BadInput /\ ~BadStreams /\ call.args.kind = "other")
                => result = Raise("TypeError_args")

C9_Witness ==
    /\ pc = "done" /\ BadItem /\ BadInput /\ BadStreams
    /\ result = Raise("ValueError_stdin") /\ steps = <<"input">>

---------------------------------------------------------------------------
(* Properties of build() *)

Ran == {ran[i] : i \in 1..Len(ran)}

\* C10: the commands run in their listed order; nothing runs after a command
\* that could not be started or ended non-zero, and that failure leaves
\* build(); the tag is created only after the README commit was pushed; the
\* variables are exported only if every command succeeded; the working
\* directory is the original one whenever build() is outside the cwd block.
C10_PipelineAborts ==
    /\ IsPrefix(ran, Pipeline)
    /\ \A i \in 1..(Len(ran) - 1) : ran[i] \in okcmds
    /\ (ran # <<>> /\ ran[Len(ran)] \notin okcmds)
           => (bpc \in {"unwind", "raised"} /\ failedAt = Len(ran))
    /\ "git tag" \in Ran => "git push ref" \in okcmds
    /\ "git push tag" \in Ran => "git tag" \in okcmds
    /\ sink # <<>> => (\A i \in 1..Len(Pipeline) : Pipeline[i] \in okcmds)
    /\ bpc \in {"pre", "chdir", "done", "raised"} => curdir = "orig"

C10_Witness ==
    /\ bpc = "raised" /\ curdir = "orig" /\ sink = <<>>
    /\ failedAt = Len(ran) /\ ran[Len(ran)] = "git push ref"

====
